---- MODULE Spec2Model ----
(***************************************************************************)
(* Verification model of the document segmentation and chunk-extraction    *)
(* orchestrator of apex-ade-cl (backend/app/services).                     *)
(*                                                                         *)
(*   SpecRL     RateLimiter.wait_if_needed called by several coroutines    *)
(*   SpecSplit  PDFChunker._split_pdf_into_chunks                          *)
(*   SpecMerge  the three merges of chunk results, on a table of rows      *)
(*   SpecExtract  one extraction call, tier by tier, of                    *)
(*              SimpleLandingAIService or OptimizedLandingAIService        *)
(*   SpecSize   PDFChunker.calculate_optimal_chunk_size                    *)
(*   SpecUpload upload, background chunking and process requests           *)
(*   SpecSeq    one chunk in _process_single_chunk and in the worker       *)
(*   Spec       process requests for one chunked document, the runs of     *)
(*              OptimizedChunkProcessor.process_document_chunks they       *)
(*              start, and chunk retry requests                            *)
(***************************************************************************)
EXTENDS Integers, Sequences, FiniteSets, TLC

VARIABLES
    \* ---- RateLimiter (chunk_processor.py) ----
    now,            \* time.time(), in ticks of 0.1 s
    request_times,  \* RateLimiter.request_times
    rl_pc,          \* per calling coroutine: "idle" | "sleeping"
    rl_wake,        \* per calling coroutine: the time asyncio.sleep returns
    admitted,       \* every timestamp ever appended to request_times
    \* ---- PDFChunker._split_pdf_into_chunks (pdf_chunker.py) ----
    sp_total,       \* total_pages
    sp_size,        \* chunk_size argument, 0 standing for None
    sp_start,       \* loop variable start_page (0-based)
    sp_chunks,      \* the list chunks
    sp_pc,          \* "loop" | "done"
    \* ---- _merge_chunk_results / merge_chunk_results ----
    m_rows,         \* the document_chunks rows, in the order the table holds them
    m_fields,       \* field_names
    m_impl,         \* which implementation produced m_out
    m_out,          \* the merged dictionary, NotMerged before the call
    \* ---- OptimizedChunkProcessor (chunk_processor_optimized.py) ----
    document,       \* the documents row
    chunk_rows,     \* the document_chunks rows of the document
    metrics,        \* the processing_metrics row of the document
    pc,             \* per run of process_document_chunks: where it is
    batch_i,        \* per run: the loop variable i of _process_chunks_parallel
    fields,         \* per run: selected_fields and custom_fields
    task,           \* per run and chunk: the coroutine gathered for the chunk
    results,        \* per run and chunk: what the coroutine returned
    \* ---- one extraction call (simple_landing_ai_service*.py) ----
    x_impl,         \* "simple": extract_document | "optimized": extract_document_optimized
    x_req,          \* selected_fields and custom_fields of the call
    x_env,          \* what the backends do during the call
    x_pc,           \* where the call is
    x_tried,        \* the tiers the call has entered, in order
    x_result,       \* the ExtractionResult returned, NoResult before
    \* ---- PDFChunker.calculate_optimal_chunk_size (pdf_chunker.py) ----
    cs_default,     \* self.max_pages_per_chunk of the chunker
    cs_size,        \* document.file_size_mb in tenths of a MB, 0 standing for None
    cs_pages,       \* document.page_count, 0 standing for None
    cs_perf,        \* avg_api_response_ms of current_performance, -1 when no metrics are given
    cs_out,         \* the size returned, 0 before the call
    \* ---- upload, background chunking and process requests of one document (documents.py, chunks.py) ----
    u_file,         \* the uploaded file: size in MB, pages, and whether PdfReader can read it
    u_doc,          \* the Document row; status "NONE" before the upload
    u_chunks,       \* chunk_number of the DocumentChunk rows, in insertion order
    u_metrics,      \* number of ProcessingMetrics rows of the document
    u_splits,       \* number of times _split_pdf_into_chunks has run
    u_chunk_task,   \* process_large_document_async: "none", "scheduled" or "done"
    u_tasks,        \* the processing background tasks, in scheduling order
    u_last,         \* outcome of the latest create_chunks call
    u_resp,         \* the answers of the requests made so far, in order
    \* ---- processing of one chunk: ChunkProcessor._process_single_chunk and the optimized worker ----
    q_impl,         \* "sequential": ChunkProcessor | "optimized": OptimizedChunkProcessor
    q_req,          \* selected_fields and custom_fields
    q_envs,         \* what the backends do at each attempt
    q_pc,           \* where the coroutine is
    q_attempt,      \* the loop variable attempt
    q_row,          \* the document_chunks row, with retry_count
    q_result,       \* extraction_result, NoResult while None
    q_trace         \* limiter waits, outbound calls, attempts and sleeps, in order

rlVars == <<now, request_times, rl_pc, rl_wake, admitted>>
spVars == <<sp_total, sp_size, sp_start, sp_chunks, sp_pc>>
mVars == <<m_rows, m_fields, m_impl, m_out>>
oVars == <<document, chunk_rows, metrics, pc, batch_i, fields, task, results>>
xVars == <<x_impl, x_req, x_env, x_pc, x_tried, x_result>>
szVars == <<cs_default, cs_size, cs_pages, cs_perf, cs_out>>
upVars == <<u_file, u_doc, u_chunks, u_metrics, u_splits, u_chunk_task, u_tasks, u_last, u_resp>>
sqVars == <<q_impl, q_req, q_envs, q_pc, q_attempt, q_row, q_result, q_trace>>
vars == <<rlVars, spVars, mVars, oVars, xVars, szVars, upVars, sqVars>>

Min(a, b) == IF a <= b THEN a ELSE b

(***************************************************************************)
(* RateLimiter                                                             *)
(***************************************************************************)
\* One tick is 0.1 s, the "small buffer" of wait_if_needed.
WindowTicks == 600
BufferTicks == 1

max_rpm == 2
NumCallers == 2
MaxAdmissions == 4
MaxHalfWindows == 3
MaxOffset == 2

Callers == 1..NumCallers

\* The instants at which the clock is sampled.
TimePoints ==
    {k * (WindowTicks \div 2) + j : k \in 0..MaxHalfWindows, j \in 0..MaxOffset}

RLInit ==
    /\ now = 0
    /\ request_times = <<>>
    /\ rl_pc = [k \in Callers |-> "idle"]
    /\ rl_wake = [k \in Callers |-> 0]
    /\ admitted = <<>>

\* self.request_times = [t for t in self.request_times if current_time - t < 60]
PruneOld(times, current_time) ==
    SelectSeq(times, LAMBDA t : current_time - t < WindowTicks)

\* wait_time = 60 - (current_time - oldest_request) + 0.1
WaitTime(times, current_time) ==
    WindowTicks - (current_time - times[1]) + BufferTicks

Pending == Cardinality({k \in Callers : rl_pc[k] = "sleeping"})

\* wait_if_needed up to its only suspension point (await asyncio.sleep), or
\* to its end when it does not sleep.
WaitIfNeeded(k) ==
    /\ rl_pc[k] = "idle"
    /\ Len(admitted) + Pending < MaxAdmissions
    /\ LET pruned == PruneOld(request_times, now) IN
         IF Len(pruned) >= max_rpm /\ WaitTime(pruned, now) > 0
         THEN /\ request_times' = pruned
              /\ rl_pc' = [rl_pc EXCEPT ![k] = "sleeping"]
              /\ rl_wake' = [rl_wake EXCEPT ![k] = now + WaitTime(pruned, now)]
              /\ UNCHANGED admitted
         ELSE /\ request_times' = Append(pruned, now)
              /\ admitted' = Append(admitted, now)
              /\ UNCHANGED <<rl_pc, rl_wake>>
    /\ UNCHANGED <<now, spVars, mVars, oVars, xVars, szVars, upVars, sqVars>>

\* The sleep is over: self.request_times.append(time.time())
WakeUp(k) ==
    /\ rl_pc[k] = "sleeping"
    /\ now >= rl_wake[k]
    /\ request_times' = Append(request_times, now)
    /\ admitted' = Append(admitted, now)
    /\ rl_pc' = [rl_pc EXCEPT ![k] = "idle"]
    /\ UNCHANGED <<now, rl_wake, spVars, mVars, oVars, xVars, szVars, upVars, sqVars>>

AdvanceClock ==
    /\ \E t \in TimePoints : t > now /\ now' = t
    /\ UNCHANGED <<request_times, rl_pc, rl_wake, admitted, spVars, mVars, oVars, xVars, szVars, upVars, sqVars>>

RLNext ==
    \/ \E k \in Callers : WaitIfNeeded(k)
    \/ \E k \in Callers : WakeUp(k)
    \/ AdvanceClock

(***************************************************************************)
(* PDFChunker._split_pdf_into_chunks                                       *)
(***************************************************************************)
max_pages_per_chunk == 40
chunk_overlap == 0

MaxPages == 9
MaxChunkSize == 4

\* (total_pages, chunk_size) pairs; chunk_size 0 is None.  The last two are
\* the 120-page document at the default size and at the size the upload
\* task passes.
SplitInputs ==
    ((1..MaxPages) \X (0..MaxChunkSize)) \cup {<<120, 0>>, <<120, 45>>}

\* effective_chunk_size = chunk_size if chunk_size else self.max_pages_per_chunk
EffectiveChunkSize(chunk_size) ==
    IF chunk_size # 0 THEN chunk_size ELSE max_pages_per_chunk

\* the dictionary with start_page left zero-based
ChunkInfoZeroBased(chunk_number, start_page, end_page) ==
    [chunk_number |-> chunk_number,
     start_page   |-> start_page,
     end_page     |-> end_page,
     page_count   |-> end_page - start_page]

\* the dictionary appended to chunks
ChunkInfo(chunk_number, start_page, end_page) ==
    [chunk_number |-> chunk_number,
     start_page   |-> start_page + 1,
     end_page     |-> end_page,
     page_count   |-> end_page - start_page]

\* end_page = min(start_page + effective_chunk_size, total_pages)
EndPage(start_page, size, total_pages) == Min(start_page + size, total_pages)

SplitInit ==
    /\ \E in \in SplitInputs : sp_total = in[1] /\ sp_size = in[2]
    /\ sp_start = 0
    /\ sp_chunks = <<>>
    /\ sp_pc = "loop"

\* one iteration of: for start_page in range(0, total_pages, size - overlap)
SplitStep ==
    /\ sp_pc = "loop"
    /\ sp_start < sp_total
    /\ LET size == EffectiveChunkSize(sp_size)
           end_page == EndPage(sp_start, size, sp_total)
       IN /\ sp_chunks' = Append(sp_chunks,
                                 ChunkInfo(Len(sp_chunks) + 1, sp_start, end_page))
          /\ sp_start' = sp_start + (size - chunk_overlap)
    /\ UNCHANGED <<sp_total, sp_size, sp_pc, rlVars, mVars, oVars, xVars, szVars, upVars, sqVars>>

\* the range is exhausted: return chunks
SplitReturn ==
    /\ sp_pc = "loop"
    /\ sp_start >= sp_total
    /\ sp_pc' = "done"
    /\ UNCHANGED <<sp_total, sp_size, sp_start, sp_chunks, rlVars, mVars, oVars, xVars, szVars, upVars, sqVars>>

SplitNext == SplitStep \/ SplitReturn

(***************************************************************************)
(* Python values held in extracted_data                                    *)
(***************************************************************************)
\* A value is None, a str (n indexes the string, 0 being ''), an int, a bool
\* (n is 0 or 1) or a list of scalars.
PyNone == [t |-> "none", n |-> 0, xs |-> <<>>]
PyStr(i) == [t |-> "str", n |-> i, xs |-> <<>>]
PyInt(i) == [t |-> "int", n |-> i, xs |-> <<>>]
PyBool(b) == [t |-> "bool", n |-> b, xs |-> <<>>]
PyList(s) == [t |-> "list", n |-> 0, xs |-> s]

\* isinstance(value, list)
IsList(v) == v.t = "list"

\* bool(value)
Truthy(v) ==
    CASE v.t = "none" -> FALSE
      [] v.t = "list" -> Len(v.xs) > 0
      [] OTHER        -> v.n # 0

\* a == b, as set membership decides it: True == 1 and False == 0
PyEq(a, b) ==
    \/ a.t = "none" /\ b.t = "none"
    \/ a.t = "str" /\ b.t = "str" /\ a.n = b.n
    \/ a.t \in {"int", "bool"} /\ b.t \in {"int", "bool"} /\ a.n = b.n

\* extracted_data is None or a dict from field names to values
NoDict == [null |-> TRUE, d |-> <<>>]
Dict(f) == [null |-> FALSE, d |-> f]

\* bool(chunk.extracted_data)
DictTruthy(data) == ~data.null /\ DOMAIN data.d # {}

(***************************************************************************)
(* The three merge implementations                                         *)
(***************************************************************************)
\* seen = set(); deduped = []; for v in values: if v not in seen: ...
RECURSIVE DedupeFrom(_, _, _)
DedupeFrom(values, i, deduped) ==
    IF i > Len(values) THEN deduped
    ELSE IF \E j \in 1..Len(deduped) : PyEq(deduped[j], values[i])
         THEN DedupeFrom(values, i + 1, deduped)
         ELSE DedupeFrom(values, i + 1, Append(deduped, values[i]))

Dedupe(values) == DedupeFrom(values, 1, <<>>)

\* if isinstance(value, list): extend(value) / elif value: append(value)
AppendIfTruthy(acc, value) ==
    IF IsList(value) THEN acc \o value.xs
    ELSE IF Truthy(value) THEN Append(acc, value)
    ELSE acc

\* PDFChunker: elif value is not None and value != '': append(value)
AppendIfPresent(acc, value) ==
    IF IsList(value) THEN acc \o value.xs
    ELSE IF value.t # "none" /\ ~(value.t = "str" /\ value.n = 0)
         THEN Append(acc, value)
    ELSE acc

\* OptimizedChunkProcessor._merge_chunk_results, the loop over chunks for one
\* field
RECURSIVE CollectOptimized(_, _, _, _)
CollectOptimized(chunks, field, i, acc) ==
    IF i > Len(chunks) THEN acc
    ELSE LET chunk == chunks[i] IN
         IF /\ DictTruthy(chunk.extracted_data)
            /\ chunk.status = "COMPLETED"
            /\ field \in DOMAIN chunk.extracted_data.d
         THEN CollectOptimized(chunks, field, i + 1,
                  AppendIfTruthy(acc, chunk.extracted_data.d[field]))
         ELSE CollectOptimized(chunks, field, i + 1, acc)

\* ChunkProcessor._merge_chunk_results, the loop over chunks for one field
RECURSIVE CollectSequential(_, _, _, _)
CollectSequential(chunks, field, i, acc) ==
    IF i > Len(chunks) THEN acc
    ELSE LET chunk == chunks[i] IN
         IF /\ DictTruthy(chunk.extracted_data)
            /\ field \in DOMAIN chunk.extracted_data.d
         THEN CollectSequential(chunks, field, i + 1,
                  AppendIfTruthy(acc, chunk.extracted_data.d[field]))
         ELSE CollectSequential(chunks, field, i + 1, acc)

\* PDFChunker.merge_chunk_results, the loop over chunks for one field
RECURSIVE CollectChunker(_, _, _, _)
CollectChunker(chunks, field, i, acc) ==
    IF i > Len(chunks) THEN acc
    ELSE LET chunk == chunks[i] IN
         IF /\ DictTruthy(chunk.extracted_data)
            /\ field \in DOMAIN chunk.extracted_data.d
         THEN CollectChunker(chunks, field, i + 1,
                  AppendIfPresent(acc, chunk.extracted_data.d[field]))
         ELSE CollectChunker(chunks, field, i + 1, acc)

FieldSet(field_names) == {field_names[i] : i \in 1..Len(field_names)}

MergeOptimized(chunks, field_names) ==
    [f \in FieldSet(field_names) |-> Dedupe(CollectOptimized(chunks, f, 1, <<>>))]

MergeSequential(chunks, field_names) ==
    [f \in FieldSet(field_names) |-> Dedupe(CollectSequential(chunks, f, 1, <<>>))]

MergeChunker(chunks, field_names) ==
    [f \in FieldSet(field_names) |-> Dedupe(CollectChunker(chunks, f, 1, <<>>))]

\* the query without its order_by: the rows in the order the table holds them
LoadChunksUnordered(table) == table

\* db.query(DocumentChunk)...order_by(DocumentChunk.chunk_number).all()
LoadChunks(table) ==
    [i \in 1..Len(table) |->
        CHOOSE r \in {table[j] : j \in 1..Len(table)} :
            Cardinality({j \in 1..Len(table) :
                            table[j].chunk_number < r.chunk_number}) = i - 1]

(***************************************************************************)
(* Merging a table of chunk rows                                           *)
(***************************************************************************)
MaxMergeChunks == 2

MergeStatuses == {"COMPLETED", "FAILED", "PENDING"}

MergeValues ==
    {PyNone, PyStr(0), PyStr(1), PyInt(0), PyBool(1),
     PyList(<<>>), PyList(<<PyStr(1), PyStr(2)>>), PyList(<<PyStr(2), PyStr(3)>>)}

\* what a row can hold in extracted_data
MergeDicts == {NoDict} \cup {Dict([f \in {"f"} |-> v]) : v \in MergeValues}

MergeFieldLists == {<<"f">>, <<"g", "f">>}

Perms(n) == {p \in [1..n -> 1..n] : \A i, j \in 1..n : p[i] = p[j] => i = j}

NotMerged == [merged |-> FALSE, d |-> <<>>]
Merged(d) == [merged |-> TRUE, d |-> d]

MergeInit ==
    /\ \E n \in 1..MaxMergeChunks :
         \E st \in [1..n -> MergeStatuses], data \in [1..n -> MergeDicts],
            p \in Perms(n) :
            \* a COMPLETED row holds the non-empty dictionary it was given
            /\ \A i \in 1..n : st[i] = "COMPLETED" => DictTruthy(data[i])
            /\ m_rows = [i \in 1..n |->
                        [chunk_number |-> p[i], status |-> st[p[i]],
                         extracted_data |-> data[p[i]]]]
    /\ m_fields \in MergeFieldLists
    /\ m_impl = "none"
    /\ m_out = NotMerged

ApplyOptimized ==
    /\ m_impl = "none"
    /\ m_impl' = "optimized"
    /\ m_out' = Merged(MergeOptimized(LoadChunks(m_rows), m_fields))
    /\ UNCHANGED <<m_rows, m_fields, rlVars, spVars, oVars, xVars, szVars, upVars, sqVars>>

ApplySequential ==
    /\ m_impl = "none"
    /\ m_impl' = "sequential"
    /\ m_out' = Merged(MergeSequential(LoadChunks(m_rows), m_fields))
    /\ UNCHANGED <<m_rows, m_fields, rlVars, spVars, oVars, xVars, szVars, upVars, sqVars>>

ApplyChunker ==
    /\ m_impl = "none"
    /\ m_impl' = "chunker"
    /\ m_out' = Merged(MergeChunker(LoadChunks(m_rows), m_fields))
    /\ UNCHANGED <<m_rows, m_fields, rlVars, spVars, oVars, xVars, szVars, upVars, sqVars>>

MergeNext == ApplyOptimized \/ ApplySequential \/ ApplyChunker

(***************************************************************************)
(* SimpleLandingAIService.extract_document                                 *)
(***************************************************************************)
\* What the backends do during one call:
\*   parse     the schema parse: a document with extracted values, a document
\*             without usable values, an empty result, or an exception
\*   reparse   the markdown-only parse after an empty result
\*   markdown  whether the parsed document carries markdown
\*   openai    the language model: values, nulls (its call failed), or not
\*             configured at all
Env(parse, reparse, markdown, openai) ==
    [parse |-> parse, reparse |-> reparse, markdown |-> markdown, openai |-> openai]

\* the backend behaviours a chunk meets: values from the schema parse, an
\* empty parse with nothing to fall back on, and a parse that raises
Envs ==
    {Env("extraction", "doc", TRUE, "values"),      \* values from the schema parse
     Env("empty", "doc", FALSE, "unconfigured"),    \* nothing to fall back on
     Env("error", "none", FALSE, "unconfigured")}   \* the parse raises

\* {field: None for field in fields}
NullsFor(field_names) == [f \in FieldSet(field_names) |-> PyNone]

\* parsed_doc.extraction.model_dump() of chunk c: one string per field
SdkExtraction(field_names, c) == [f \in FieldSet(field_names) |-> PyStr(c)]

\* _extract_fields_using_openai: an array per field, or nulls when the model
\* is not configured or its call failed
ExtractFieldsUsingOpenAI(field_names, env, c) ==
    IF env.openai = "values"
    THEN [f \in FieldSet(field_names) |-> PyList(<<PyStr(c), PyStr(c + 1)>>)]
    ELSE NullsFor(field_names)

\* result_data = {**filtered_data, 'chunks': chunks_with_telemetry}
WithChunksKey(d) ==
    [k \in DOMAIN d \cup {"chunks"} |-> IF k = "chunks" THEN PyList(<<>>) ELSE d[k]]

\* the ExtractionResult; metadata "NONE" is metadata=None
ExtractionResult(data, method) == [data |-> Dict(data), metadata |-> method]

ExtractDocument(selected_fields, custom_fields, env, c) ==
    LET all_fields == selected_fields \o custom_fields
        \* except Exception: empty_data = {field: None for field in selected_fields}
        on_error == ExtractionResult(NullsFor(selected_fields), "NONE")
    IN CASE env.parse = "error" -> on_error
         [] env.parse = "empty" ->
              IF env.reparse = "doc"
              THEN IF env.markdown /\ env.openai # "unconfigured"
                   THEN ExtractionResult(
                            ExtractFieldsUsingOpenAI(all_fields, env, c),
                            "OPENAI_FALLBACK")
                   ELSE ExtractionResult(NullsFor(all_fields), "FAILED")
              ELSE on_error  \* raise Exception("No results from parse")
         [] OTHER ->
              LET needs_openai_extraction == env.parse # "extraction"
                  use_openai == needs_openai_extraction /\ env.markdown
                  extracted_data ==
                      IF use_openai
                      THEN ExtractFieldsUsingOpenAI(all_fields, env, c)
                      ELSE IF env.parse = "extraction"
                           THEN SdkExtraction(all_fields, c)
                           ELSE NullsFor(all_fields)
              IN ExtractionResult(WithChunksKey(extracted_data),
                     IF use_openai THEN "OPENAI_FALLBACK" ELSE "LANDING_AI_SDK")

(***************************************************************************)
(* OptimizedChunkProcessor                                                 *)
(***************************************************************************)
NumChunks == 3
max_parallel_chunks == 2
NumRuns == 2
DocChunkSize == 2

Chunks == 1..NumChunks
Runs == 1..NumRuns

DocPages == NumChunks * DocChunkSize - 1

\* the field selections a process request carries
FieldRequests ==
    {[selected |-> <<"f">>, custom |-> <<>>],
     [selected |-> <<>>, custom |-> <<"g">>]}

NoFields == [selected |-> <<>>, custom |-> <<>>]

\* the row create_chunks stores for chunk c
NewChunkRow(c) ==
    LET info == ChunkInfo(c, (c - 1) * DocChunkSize,
                          EndPage((c - 1) * DocChunkSize, DocChunkSize, DocPages))
    IN [chunk_number |-> info.chunk_number,
        start_page |-> info.start_page,
        end_page |-> info.end_page,
        page_count |-> info.page_count,
        status |-> "PENDING",
        extraction_method |-> "NULL",
        extracted_data |-> NoDict,
        extracted_fields |-> {},
        error_message |-> "NULL",
        processing_time_ms |-> "NULL"]

\* the state after upload and create_chunks
OrchInit ==
    /\ document = [status |-> "PENDING", is_chunked |-> TRUE,
                   total_chunks |-> NumChunks, completed_chunks |-> 0,
                   extracted_data |-> NotMerged, error_message |-> "NULL"]
    /\ chunk_rows = [c \in Chunks |-> NewChunkRow(c)]
    /\ metrics = [total_pages |-> DocPages, total_chunks |-> NumChunks,
                  processed_pages |-> 0, completed_chunks |-> 0,
                  failed_chunks |-> 0, landing_ai_api_count |-> 0,
                  landing_ai_sdk_count |-> 0, openai_fallback_count |-> 0,
                  is_complete |-> FALSE, has_failures |-> FALSE]
    /\ pc = [r \in Runs |-> "idle"]
    /\ batch_i = [r \in Runs |-> 0]
    /\ fields = [r \in Runs |-> NoFields]
    /\ task = [r \in Runs |-> [c \in Chunks |-> "none"]]
    /\ results = [r \in Runs |-> [c \in Chunks |-> NoDict]]

\* batch = chunks[i:i + batch_size], as chunk numbers
Batch(i) == {c \in Chunks : i < c /\ c <= i + max_parallel_chunks}

\* a gather that returned as soon as one coroutine of the batch had returned
BatchAnyDone(r) == \E c \in Batch(batch_i[r]) : task[r][c] = "done"

\* await asyncio.gather(*batch_tasks, return_exceptions=True) has returned
BatchDrained(r) == \A c \in Batch(batch_i[r]) : task[r][c] = "done"

\* POST /{document_id}/process with fields selected: refused while the
\* document is EXTRACTING, otherwise the document is set to EXTRACTING and
\* process_document_with_fields is scheduled as a background task.  Requests
\* take the slots of Runs in order.
ProcessRequest(r, req) ==
    /\ pc[r] = "idle"
    /\ \A q \in Runs : q < r => pc[q] # "idle"
    /\ document.status # "EXTRACTING"
    /\ document' = [document EXCEPT !.status = "EXTRACTING"]
    /\ pc' = [pc EXCEPT ![r] = "scheduled"]
    /\ fields' = [fields EXCEPT ![r] = req]
    /\ UNCHANGED <<chunk_rows, metrics, batch_i, task, results,
                   rlVars, spVars, mVars, xVars, szVars, upVars, sqVars>>

\* process_document_chunks up to its first suspension: the document is set to
\* CHUNK_PROCESSING, the chunks are loaded and the first batch is gathered.
StartRun(r) ==
    /\ pc[r] = "scheduled"
    /\ document' = [document EXCEPT !.status = "CHUNK_PROCESSING"]
    /\ pc' = [pc EXCEPT ![r] = "gather"]
    /\ batch_i' = [batch_i EXCEPT ![r] = 0]
    /\ UNCHANGED <<chunk_rows, metrics, fields, task, results,
                   rlVars, spVars, mVars, xVars, szVars, upVars, sqVars>>

\* _process_single_chunk_simplified up to its await of extract_document: the
\* coroutines of a batch start in the order gather was given them
TaskStart(r, c) ==
    /\ pc[r] = "gather"
    /\ c \in Batch(batch_i[r])
    /\ task[r][c] = "none"
    /\ \A b \in Batch(batch_i[r]) : b < c => task[r][b] # "none"
    /\ chunk_rows' = [chunk_rows EXCEPT ![c].status = "PROCESSING"]
    /\ task' = [task EXCEPT ![r][c] = "called"]
    /\ UNCHANGED <<document, metrics, pc, batch_i, fields, results,
                   rlVars, spVars, mVars, xVars, szVars, upVars, sqVars>>

\* _update_extraction_method_count
UpdateExtractionMethodCount(m, method) ==
    CASE method = "LANDING_AI_API" ->
            [m EXCEPT !.landing_ai_api_count = @ + 1]
      [] method = "LANDING_AI_SDK" ->
            [m EXCEPT !.landing_ai_sdk_count = @ + 1]
      [] method = "OPENAI_FALLBACK" ->
            [m EXCEPT !.openai_fallback_count = @ + 1]
      [] OTHER -> m

\* the chunk row after extract_document returned result
ChunkAfterExtraction(row, result) ==
    IF DictTruthy(result.data)
    THEN IF result.metadata = "NONE"
         \* extraction_result.metadata.get raises AttributeError, caught by
         \* except Exception
         THEN [row EXCEPT !.status = "FAILED",
                          !.error_message = "'NoneType' object has no attribute 'get'"]
         ELSE [row EXCEPT !.status = "COMPLETED",
                          !.extracted_data = result.data,
                          !.extracted_fields = DOMAIN result.data.d,
                          !.extraction_method = result.metadata,
                          !.processing_time_ms = "SET"]
    ELSE [row EXCEPT !.status = "FAILED",
                     !.error_message = "No data extracted"]

\* the rest of _process_single_chunk_simplified, extract_document having
\* returned under env
TaskFinishWith(r, c, env) ==
    /\ pc[r] = "gather"
    /\ task[r][c] = "called"
    /\ LET result == ExtractDocument(fields[r].selected, fields[r].custom, env, c)
           row == ChunkAfterExtraction(chunk_rows[c], result)
       IN /\ chunk_rows' = [chunk_rows EXCEPT ![c] = row]
          /\ metrics' = IF row.status = "COMPLETED"
                        THEN UpdateExtractionMethodCount(metrics, result.metadata)
                        ELSE metrics
          /\ results' = [results EXCEPT ![r][c] =
                            IF row.status = "COMPLETED" THEN result.data ELSE NoDict]
    /\ task' = [task EXCEPT ![r][c] = "done"]
    /\ UNCHANGED <<document, pc, batch_i, fields, rlVars, spVars, mVars, xVars, szVars, upVars, sqVars>>

TaskFinish(r, c) == \E env \in Envs : TaskFinishWith(r, c, env)

\* completed = len([r for r in results if r is not None])
CompletedResults(r) ==
    Cardinality({c \in Chunks : c <= batch_i[r] + max_parallel_chunks
                                 /\ ~results[r][c].null})

CompletedRows == {c \in Chunks : chunk_rows[c].status = "COMPLETED"}

\* an update of the metrics that gave up on a document with a FAILED chunk
FailedChunkRaises == \E c \in Chunks : chunk_rows[c].status = "FAILED"

\* Query.scalar() on the page_count of the COMPLETED rows raises
\* MultipleResultsFound when more than one row matches
ScalarRaises == Cardinality(CompletedRows) > 1

\* ....with_entities(DocumentChunk.page_count).scalar() or 0
ScalarPageCount ==
    IF CompletedRows = {} THEN 0
    ELSE chunk_rows[CHOOSE c \in CompletedRows : TRUE].page_count

\* _update_metrics(document_id, completed_chunks=completed), not raising
UpdateMetrics(m, completed) ==
    [m EXCEPT !.completed_chunks = completed,
              !.processed_pages = ScalarPageCount,
              !.is_complete = (completed = m.total_chunks)]

\* the run is over: its local variables are gone
DropLocals(r) ==
    /\ batch_i' = [batch_i EXCEPT ![r] = 0]
    /\ fields' = [fields EXCEPT ![r] = NoFields]
    /\ task' = [task EXCEPT ![r] = [c \in Chunks |-> "none"]]
    /\ results' = [results EXCEPT ![r] = [c \in Chunks |-> NoDict]]

\* the batch has drained and is not the last: metrics are updated and the
\* next batch is gathered
NextBatch(r) ==
    /\ pc[r] = "gather"
    /\ BatchDrained(r)
    /\ batch_i[r] + max_parallel_chunks < NumChunks
    /\ ~ScalarRaises
    /\ metrics' = UpdateMetrics(metrics, CompletedResults(r))
    /\ batch_i' = [batch_i EXCEPT ![r] = @ + max_parallel_chunks]
    /\ UNCHANGED <<document, chunk_rows, pc, fields, task, results,
                   rlVars, spVars, mVars, xVars, szVars, upVars, sqVars>>

\* the last batch has drained: metrics are updated, the chunks are merged and
\* the document is set to EXTRACTED
CompleteRun(r) ==
    /\ pc[r] = "gather"
    /\ BatchDrained(r)
    /\ batch_i[r] + max_parallel_chunks >= NumChunks
    /\ ~ScalarRaises
    /\ metrics' = UpdateMetrics(metrics, CompletedResults(r))
    /\ document' =
          [document EXCEPT
              !.extracted_data =
                  Merged(MergeOptimized(LoadChunks(chunk_rows),
                                        fields[r].selected \o fields[r].custom)),
              !.status = "EXTRACTED",
              !.completed_chunks = CompletedResults(r)]
    /\ pc' = [pc EXCEPT ![r] = "returned"]
    /\ DropLocals(r)
    /\ UNCHANGED <<chunk_rows, rlVars, spVars, mVars, xVars, szVars, upVars, sqVars>>

\* an except clause that only logs the exception and re-raises it, leaving
\* the document as the run found it
AbortRunUnrecorded(r) ==
    /\ pc[r] = "gather"
    /\ BatchDrained(r)
    /\ ScalarRaises
    /\ metrics' = [metrics EXCEPT !.completed_chunks = CompletedResults(r)]
    /\ pc' = [pc EXCEPT ![r] = "raised"]
    /\ DropLocals(r)
    /\ UNCHANGED <<document, chunk_rows, rlVars, spVars, mVars, xVars, szVars, upVars, sqVars>>

\* _update_metrics raises after a batch: the exception leaves
\* _process_chunks_parallel and process_document_chunks marks the document
\* FAILED; its commit also stores the completed_chunks already assigned
AbortRun(r) ==
    /\ pc[r] = "gather"
    /\ BatchDrained(r)
    /\ ScalarRaises
    /\ metrics' = [metrics EXCEPT !.completed_chunks = CompletedResults(r)]
    /\ document' = [document EXCEPT !.status = "FAILED",
                                    !.error_message = "MultipleResultsFound"]
    /\ pc' = [pc EXCEPT ![r] = "raised"]
    /\ DropLocals(r)
    /\ UNCHANGED <<chunk_rows, rlVars, spVars, mVars, xVars, szVars, upVars, sqVars>>

\* an endpoint that resets a chunk whatever its status
RetryableAnyStatus ==
    {"PENDING", "PROCESSING", "COMPLETED", "FAILED", "RETRYING"}

\* if chunk.status not in [ChunkStatus.FAILED, ChunkStatus.RETRYING]: 400
RetryableStatuses == {"FAILED", "RETRYING"}

\* retry_chunk_processing(document_id, chunk_id): the HTTP status it answers
\* with and the chunk rows it leaves; a chunk_id outside Chunks has no row
RetryChunkProcessing(rows, c) ==
    IF c \notin Chunks
    THEN [code |-> 404, rows |-> rows]
    ELSE IF rows[c].status \notin RetryableStatuses
         THEN [code |-> 400, rows |-> rows]
         ELSE [code |-> 200,
               rows |-> [rows EXCEPT ![c].status = "PENDING",
                                     ![c].error_message = "NULL"]]

\* POST /{document_id}/chunk/{chunk_id}/retry on a chunk that is FAILED or
\* RETRYING; on any other chunk the request is rejected and changes nothing
RetryChunk(c) ==
    /\ RetryChunkProcessing(chunk_rows, c).code = 200
    /\ chunk_rows' = RetryChunkProcessing(chunk_rows, c).rows
    /\ UNCHANGED <<document, metrics, pc, batch_i, fields, task, results,
                   rlVars, spVars, mVars, xVars, szVars, upVars, sqVars>>

OrchNext ==
    \/ \E r \in Runs, req \in FieldRequests : ProcessRequest(r, req)
    \/ \E r \in Runs : StartRun(r)
    \/ \E r \in Runs, c \in Chunks : TaskStart(r, c)
    \/ \E r \in Runs, c \in Chunks : TaskFinish(r, c)
    \/ \E r \in Runs : NextBatch(r)
    \/ \E r \in Runs : CompleteRun(r)
    \/ \E r \in Runs : AbortRun(r)
    \/ \E c \in Chunks : RetryChunk(c)

(***************************************************************************)
(* One extraction call, tier by tier                                       *)
(***************************************************************************)
\* Env extended by the remote API: its request returns an extracted schema
\* ("values") or fails ("error").  reparse tells a markdown-only parse that
\* returns a document ("doc") from one that returns nothing ("empty") and one
\* that raises ("error"); parse "nulls" is a document without usable values.
TierEnv(parse, reparse, markdown, openai, api) ==
    [parse |-> parse, reparse |-> reparse, markdown |-> markdown,
     openai |-> openai, api |-> api]

TierEnvs ==
    {TierEnv(p, rp, md, o, a) :
        p \in {"extraction", "nulls", "empty", "error"},
        rp \in {"doc", "empty", "error"},
        md \in BOOLEAN,
        o \in {"values", "nulls", "unconfigured"},
        a \in {"values", "error"}}

\* the field selections of a call: selected only, custom only, or both
TierRequests == FieldRequests \cup {[selected |-> <<"f">>, custom |-> <<"g">>]}

\* the fields the call is asked for: selected_fields followed by the names of
\* custom_fields (extract_document), selected_fields (extract_document_optimized)
Requested == x_req.selected \o x_req.custom

NoResult == [data |-> NoDict, metadata |-> "NOT_RETURNED"]

ExtractInit ==
    /\ x_impl \in {"simple", "optimized"}
    /\ x_req \in TierRequests
    /\ x_env \in TierEnvs
    /\ x_pc = "start"
    /\ x_tried = <<>>
    /\ x_result = NoResult

\* the call returns result
Return(result) ==
    /\ x_result' = result
    /\ x_pc' = "returned"

\* extract_document up to the end of the schema parse: the library tier
SimpleParse ==
    /\ x_impl = "simple" /\ x_pc = "start"
    /\ x_tried' = Append(x_tried, "LIBRARY")
    /\ CASE x_env.parse = "error" ->
                x_pc' = "except" /\ UNCHANGED x_result
         [] x_env.parse = "empty" ->
                x_pc' = "reparse" /\ UNCHANGED x_result
         [] x_env.parse = "nulls" /\ x_env.markdown ->
                x_pc' = "openai" /\ UNCHANGED x_result
         [] OTHER ->
                Return(ExtractDocument(x_req.selected, x_req.custom, x_env, 1))
    /\ UNCHANGED <<x_impl, x_req, x_env, rlVars, spVars, mVars, oVars, szVars, upVars, sqVars>>

\* the markdown-only parse that follows an empty schema parse
SimpleReparse ==
    /\ x_impl = "simple" /\ x_pc = "reparse"
    /\ IF x_env.reparse # "doc"
       THEN x_pc' = "except" /\ UNCHANGED x_result
       ELSE IF x_env.markdown /\ x_env.openai # "unconfigured"
            THEN x_pc' = "openai" /\ UNCHANGED x_result
            ELSE Return(ExtractDocument(x_req.selected, x_req.custom, x_env, 1))
    /\ UNCHANGED <<x_impl, x_req, x_env, x_tried, rlVars, spVars, mVars, oVars, szVars, upVars, sqVars>>

\* self._extract_fields_using_openai(...) and the return that follows it
SimpleOpenAI ==
    /\ x_impl = "simple" /\ x_pc = "openai"
    /\ x_tried' = Append(x_tried, "OPENAI")
    /\ Return(ExtractDocument(x_req.selected, x_req.custom, x_env, 1))
    /\ UNCHANGED <<x_impl, x_req, x_env, rlVars, spVars, mVars, oVars, szVars, upVars, sqVars>>

\* except Exception as e: the answer without metadata
SimpleExcept ==
    /\ x_impl = "simple" /\ x_pc = "except"
    /\ Return(ExtractDocument(x_req.selected, x_req.custom, x_env, 1))
    /\ UNCHANGED <<x_impl, x_req, x_env, x_tried, rlVars, spVars, mVars, oVars, szVars, upVars, sqVars>>

\* extract_document_optimized, phase 1: _try_sdk_extraction
TrySdkExtraction ==
    /\ x_impl = "optimized" /\ x_pc = "start"
    /\ x_tried' = Append(x_tried, "LIBRARY")
    /\ IF x_env.parse = "extraction"
       THEN Return(ExtractionResult(SdkExtraction(Requested, 1), "LANDING_AI_SDK"))
       ELSE x_pc' = "api" /\ UNCHANGED x_result
    /\ UNCHANGED <<x_impl, x_req, x_env, rlVars, spVars, mVars, oVars, szVars, upVars, sqVars>>

\* phase 2: _try_api_extraction; after a 200 answer the markdown is parsed
\* inside the same try, so that a parse that raises discards the answer
TryApiExtraction ==
    /\ x_impl = "optimized" /\ x_pc = "api"
    /\ x_tried' = Append(x_tried, "REMOTE_API")
    /\ IF x_env.api = "values" /\ x_env.reparse # "error"
       THEN Return(ExtractionResult(SdkExtraction(Requested, 1), "LANDING_AI_API"))
       ELSE x_pc' = "openai" /\ UNCHANGED x_result
    /\ UNCHANGED <<x_impl, x_req, x_env, rlVars, spVars, mVars, oVars, szVars, upVars, sqVars>>

\* phase 3: _try_openai_extraction, and the answer when it returns None
TryOpenAIExtraction ==
    /\ x_impl = "optimized" /\ x_pc = "openai"
    /\ x_tried' = Append(x_tried, "OPENAI")
    /\ IF /\ x_env.openai # "unconfigured"
          /\ x_env.reparse = "doc"
          /\ x_env.markdown
       THEN Return(ExtractionResult(ExtractFieldsUsingOpenAI(Requested, x_env, 1),
                                    "OPENAI_FALLBACK"))
       ELSE Return(ExtractionResult(NullsFor(Requested), "FAILED"))
    /\ UNCHANGED <<x_impl, x_req, x_env, rlVars, spVars, mVars, oVars, szVars, upVars, sqVars>>

ExtractNext ==
    \/ SimpleParse
    \/ SimpleReparse
    \/ SimpleOpenAI
    \/ SimpleExcept
    \/ TrySdkExtraction
    \/ TryApiExtraction
    \/ TryOpenAIExtraction

(***************************************************************************)
(* PDFChunker.calculate_optimal_chunk_size                                 *)
(***************************************************************************)
Max(a, b) == IF a >= b THEN a ELSE b

\* a function that returns base_size as adjusted, without the final limits
Unclamped(base_size) == base_size

\* return max(10, min(base_size, 45))
Clamp(base_size) == Max(10, Min(base_size, 45))

\* avg_page_size_mb > tenths / 10, file_size being in tenths of a MB
AvgPageSizeAbove(file_size, page_count, tenths) == file_size > tenths * page_count

\* calculate_optimal_chunk_size(document, current_performance) of a chunker
\* whose max_pages_per_chunk is default
CalculateOptimalChunkSize(default, file_size, page_count, perf) ==
    LET by_size ==
            IF file_size # 0 /\ page_count # 0
            THEN IF AvgPageSizeAbove(file_size, page_count, 5)
                 THEN Min(default, 25)
                 ELSE IF AvgPageSizeAbove(file_size, page_count, 10)
                      THEN Min(default, 15)
                      ELSE default
            ELSE default
        by_perf ==
            IF perf # -1
            THEN IF perf > 15000
                 THEN Min(by_size, 25)
                 ELSE IF perf > 30000
                      THEN Min(by_size, 15)
                      ELSE by_size
            ELSE by_size
    IN Clamp(by_perf)

\* the chunk sizes a chunker is configured with
SizeDefaults == {1, 9, 10, 15, 25, 40, 45, 46, 60}

\* file sizes in tenths of a MB, page counts and response times in ms
SizeFileSizes == {0, 5, 6, 10, 11, 50, 51, 100, 101, 1000, 1001, 5000}
SizePageCounts == {0, 1, 10, 100}
SizeResponseTimes == {-1, 0, 15000, 15001, 30000, 30001, 60000}

SizeInit ==
    /\ cs_default \in SizeDefaults
    /\ cs_size \in SizeFileSizes
    /\ cs_pages \in SizePageCounts
    /\ cs_perf \in SizeResponseTimes
    /\ cs_out = 0

CalculateSize ==
    /\ cs_out = 0
    /\ cs_out' = CalculateOptimalChunkSize(cs_default, cs_size, cs_pages, cs_perf)
    /\ UNCHANGED <<cs_default, cs_size, cs_pages, cs_perf,
                   rlVars, spVars, mVars, oVars, xVars, upVars, sqVars>>

SizeNext == CalculateSize

(***************************************************************************)
(* Upload, background chunking and processing of one document              *)
(* (documents.py, chunks.py, PDFChunker.create_chunks)                     *)
(***************************************************************************)
MaxRequests == 3

UploadSizes == {30, 45, 60}
UploadPages == {50, 150}
UploadedFiles == [size : UploadSizes, pages : UploadPages, readable : BOOLEAN]

\* page_count -1 stands for None
NoDocument ==
    [status |-> "NONE", is_chunked |-> FALSE, total_chunks |-> 0,
     page_count |-> -1, error_message |-> "NULL"]

\* should_chunk_document: any exception is logged and (False, 0, 0) returned
ShouldChunkDocument(file) ==
    IF file.readable
    THEN [should_chunk |-> file.size > 50 \/ file.pages > 100,
          page_count |-> file.pages, file_size_mb |-> file.size]
    ELSE [should_chunk |-> FALSE, page_count |-> 0, file_size_mb |-> 0]

\* an endpoint that never takes the document for chunked
NeverChunked(doc) == FALSE

\* `if document.is_chunked` of the two chunk endpoints
AlreadyChunked(doc) == doc.is_chunked

\* chunk_number of the dictionaries _split_pdf_into_chunks returns
ChunkNumbers(total_pages, chunk_size) ==
    LET step == EffectiveChunkSize(chunk_size) - chunk_overlap
    IN  [i \in 1..((total_pages + step - 1) \div step) |-> i]

\* create_chunks(document, db, chunk_size) on the database given; outcome is
\* "returned" or "raised".  The processing_metrics row is unique per document:
\* with a row present the final commit fails, what that transaction added is
\* rolled back and the handler records the failure.
CreateChunks(file, doc, rows, n_metrics, splits, chunk_size) ==
    LET sc == ShouldChunkDocument(file)
        doc1 == [doc EXCEPT !.page_count = sc.page_count]
        doc2 == [doc1 EXCEPT !.status = "CHUNKING", !.is_chunked = TRUE]
        new == ChunkNumbers(sc.page_count, chunk_size)
    IN  IF ~sc.should_chunk
        THEN [doc |-> [doc1 EXCEPT !.is_chunked = FALSE], rows |-> rows,
              n_metrics |-> n_metrics, splits |-> splits, outcome |-> "returned"]
        ELSE IF n_metrics >= 1
        THEN [doc |-> [doc2 EXCEPT !.status = "FAILED",
                                   !.error_message = "Chunking failed"],
              rows |-> rows, n_metrics |-> n_metrics, splits |-> splits + 1,
              outcome |-> "raised"]
        ELSE [doc |-> [doc2 EXCEPT !.total_chunks = Len(new)],
              rows |-> rows \o new, n_metrics |-> n_metrics + 1,
              splits |-> splits + 1, outcome |-> "returned"]

UploadInit ==
    /\ u_file \in UploadedFiles
    /\ u_doc = NoDocument
    /\ u_chunks = <<>>
    /\ u_metrics = 0
    /\ u_splits = 0
    /\ u_chunk_task = "none"
    /\ u_tasks = <<>>
    /\ u_last = "none"
    /\ u_resp = <<>>

\* POST /documents/upload
UploadDocument ==
    /\ u_doc.status = "NONE"
    /\ u_doc' = [NoDocument EXCEPT
                    !.status = IF u_file.size > 40 THEN "CHUNKING" ELSE "PENDING",
                    !.is_chunked = u_file.size > 40]
    /\ u_chunk_task' = IF u_file.size > 40 THEN "scheduled" ELSE "none"
    /\ UNCHANGED <<u_file, u_chunks, u_metrics, u_splits, u_tasks, u_last, u_resp,
                   rlVars, spVars, mVars, oVars, xVars, szVars, sqVars>>

\* process_large_document_async, the background task of the upload
ChunkingTask ==
    /\ u_chunk_task = "scheduled"
    /\ LET r == CreateChunks(u_file, u_doc, u_chunks, u_metrics, u_splits, 45)
       IN  /\ u_doc' = IF r.outcome = "returned"
                       THEN [r.doc EXCEPT !.status = "PENDING"]
                       ELSE [r.doc EXCEPT !.status = "FAILED",
                                          !.error_message = "Chunking failed"]
           /\ u_chunks' = r.rows
           /\ u_metrics' = r.n_metrics
           /\ u_splits' = r.splits
           /\ u_last' = r.outcome
    /\ u_chunk_task' = "done"
    /\ UNCHANGED <<u_file, u_tasks, u_resp,
                   rlVars, spVars, mVars, oVars, xVars, szVars, sqVars>>

\* POST /chunks/{document_id}/chunk
CreateDocumentChunks ==
    /\ u_doc.status # "NONE"
    /\ Len(u_resp) < MaxRequests
    /\ LET sc == ShouldChunkDocument(u_file)
           r == CreateChunks(u_file, u_doc, u_chunks, u_metrics, u_splits, 0)
       IN  IF AlreadyChunked(u_doc)
           THEN /\ u_resp' = Append(u_resp, "already chunked")
                /\ UNCHANGED <<u_doc, u_chunks, u_metrics, u_splits, u_last>>
           ELSE IF ~sc.should_chunk
           THEN /\ u_resp' = Append(u_resp, "not required")
                /\ UNCHANGED <<u_doc, u_chunks, u_metrics, u_splits, u_last>>
           ELSE /\ u_resp' = Append(u_resp, IF r.outcome = "returned"
                                              THEN "created" ELSE "500")
                /\ u_doc' = r.doc
                /\ u_chunks' = r.rows
                /\ u_metrics' = r.n_metrics
                /\ u_splits' = r.splits
                /\ u_last' = r.outcome
    /\ UNCHANGED <<u_file, u_chunk_task, u_tasks,
                   rlVars, spVars, mVars, oVars, xVars, szVars, sqVars>>

NewTask(kind) == [kind |-> kind, pc |-> "scheduled"]

\* POST /chunks/{document_id}/process-chunks
ProcessChunksRequest ==
    /\ u_doc.status # "NONE"
    /\ Len(u_resp) < MaxRequests
    /\ LET sc == ShouldChunkDocument(u_file)
           r == CreateChunks(u_file, u_doc, u_chunks, u_metrics, u_splits, 0)
       IN  IF AlreadyChunked(u_doc)
           THEN /\ u_resp' = Append(u_resp, "started")
                /\ u_tasks' = Append(u_tasks, NewTask("sequential"))
                /\ UNCHANGED <<u_doc, u_chunks, u_metrics, u_splits, u_last>>
           ELSE IF ~sc.should_chunk
           THEN /\ u_resp' = Append(u_resp, "400")
                /\ UNCHANGED <<u_doc, u_chunks, u_metrics, u_splits, u_last, u_tasks>>
           ELSE /\ u_resp' = Append(u_resp, IF r.outcome = "returned"
                                              THEN "started" ELSE "500")
                /\ u_tasks' = IF r.outcome = "returned"
                              THEN Append(u_tasks, NewTask("sequential"))
                              ELSE u_tasks
                /\ u_doc' = r.doc
                /\ u_chunks' = r.rows
                /\ u_metrics' = r.n_metrics
                /\ u_splits' = r.splits
                /\ u_last' = r.outcome
    /\ UNCHANGED <<u_file, u_chunk_task,
                   rlVars, spVars, mVars, oVars, xVars, szVars, sqVars>>

\* POST /documents/{document_id}/process, with fields selected or without
ProcessDocument(with_fields) ==
    /\ u_doc.status \notin {"NONE", "EXTRACTING"}
    /\ Len(u_resp) < MaxRequests
    /\ u_doc' = [u_doc EXCEPT !.status = "EXTRACTING"]
    /\ u_tasks' = Append(u_tasks, NewTask(IF with_fields THEN "fields" ELSE "model"))
    /\ u_resp' = Append(u_resp, "extracting")
    /\ UNCHANGED <<u_file, u_chunks, u_metrics, u_splits, u_chunk_task, u_last,
                   rlVars, spVars, mVars, oVars, xVars, szVars, sqVars>>

\* the task takes the chunk-processing branch
ProcessesChunks(t) == t.kind = "sequential" \/ u_doc.is_chunked

\* a background task runs up to its first extraction call: ChunkProcessor's
\* process_document_chunks ("sequential"), process_document_with_fields
\* ("fields") or process_document_with_model ("model")
ProcessTaskStart(i) ==
    /\ i \in 1..Len(u_tasks)
    /\ u_tasks[i].pc = "scheduled"
    /\ LET t == u_tasks[i]
           marked == IF ProcessesChunks(t) /\ t.kind # "model"
                     THEN [u_doc EXCEPT !.status = "CHUNK_PROCESSING"]
                     ELSE u_doc
       IN  IF ProcessesChunks(t) /\ u_chunks = <<>>
           THEN /\ u_doc' = [marked EXCEPT !.status = "FAILED",
                                           !.error_message = "No chunks found"]
                /\ u_tasks' = [u_tasks EXCEPT ![i].pc = "done"]
           ELSE /\ u_doc' = marked
                /\ u_tasks' = [u_tasks EXCEPT ![i].pc = "running"]
    /\ UNCHANGED <<u_file, u_chunks, u_metrics, u_splits, u_chunk_task, u_last, u_resp,
                   rlVars, spVars, mVars, oVars, xVars, szVars, sqVars>>

\* the task ends: the extraction is stored, or an exception was recorded
ProcessTaskFinish(i, ok) ==
    /\ i \in 1..Len(u_tasks)
    /\ u_tasks[i].pc = "running"
    /\ u_doc' = IF ok
                THEN [u_doc EXCEPT !.status = "EXTRACTED"]
                ELSE [u_doc EXCEPT !.status = "FAILED",
                                   !.error_message = "extraction failed"]
    /\ u_tasks' = [u_tasks EXCEPT ![i].pc = "done"]
    /\ UNCHANGED <<u_file, u_chunks, u_metrics, u_splits, u_chunk_task, u_last, u_resp,
                   rlVars, spVars, mVars, oVars, xVars, szVars, sqVars>>

UploadNext ==
    \/ UploadDocument
    \/ ChunkingTask
    \/ CreateDocumentChunks
    \/ ProcessChunksRequest
    \/ \E with_fields \in BOOLEAN : ProcessDocument(with_fields)
    \/ \E i \in 1..MaxRequests : ProcessTaskStart(i)
    \/ \E i \in 1..MaxRequests, ok \in BOOLEAN : ProcessTaskFinish(i, ok)

(***************************************************************************)
(* One chunk: ChunkProcessor._process_single_chunk (chunk_processor.py)    *)
(* and the worker of OptimizedChunkProcessor                               *)
(***************************************************************************)
max_retries == 3
retry_delay_base == 2

\* the backend behaviours an attempt meets
SeqEnvs ==
    {Env("extraction", "doc", TRUE, "values"),      \* values from the schema parse
     Env("error", "none", FALSE, "unconfigured"),   \* the parse raises
     Env("empty", "doc", FALSE, "unconfigured"),    \* nothing to fall back on
     Env("empty", "doc", TRUE, "values"),           \* the language model answers
     Env("nulls", "doc", TRUE, "nulls")}            \* the language model call fails

SeqRequests == FieldRequests \cup {NoFields}

Event(ev, b, n) == [ev |-> ev, b |-> b, n |-> n]

\* the outbound calls extract_document makes under env, in order: parse of
\* the Landing.AI library, and the chat completion of _extract_fields_using_openai
CallEvents(env) ==
    LET landing == <<Event("call", "landing_ai", 0)>>
        openai == IF env.markdown /\ env.openai # "unconfigured"
                  THEN <<Event("call", "openai", 0)>>
                  ELSE <<>>
    IN CASE env.parse = "error" -> landing \o landing
         [] env.parse = "empty" ->
              IF env.reparse = "doc"
              THEN landing \o landing \o openai
              ELSE landing \o landing \o landing
         [] env.parse = "extraction" -> landing
         [] OTHER -> landing \o openai

\* the row of the chunk, as create_chunks stored it
SeqChunkRow ==
    [k \in DOMAIN NewChunkRow(1) \cup {"retry_count"} |->
        IF k = "retry_count" THEN 0 ELSE NewChunkRow(1)[k]]

\* _determine_extraction_method raises AttributeError on metadata=None
DetermineRaises(result) == result.metadata = "NONE"

DetermineExtractionMethod(result) == result.metadata

\* a loop that never breaks
NeverBreaks(result) == FALSE

\* `if extraction_result and extraction_result.data: break`
BreaksLoop(result) == DictTruthy(result.data)

\* what follows the retry loop
AfterLoop(row, result, attempt) ==
    IF DictTruthy(result.data)
    THEN [row EXCEPT !.status = "COMPLETED",
                     !.extracted_data = result.data,
                     !.extracted_fields = DOMAIN result.data.d,
                     !.extraction_method = DetermineExtractionMethod(result),
                     !.processing_time_ms = "SET",
                     !.retry_count = attempt + 1]
    ELSE [row EXCEPT !.status = "FAILED",
                     !.error_message = "No data extracted"]

SeqInit ==
    /\ q_impl \in {"sequential", "optimized"}
    /\ q_req \in SeqRequests
    /\ q_envs \in [1..max_retries -> SeqEnvs]
    /\ q_pc = "start"
    /\ q_attempt = 0
    /\ q_row = SeqChunkRow
    /\ q_result = NoResult
    /\ q_trace = <<>>

\* _process_single_chunk up to the retry loop
SeqStart ==
    /\ q_impl = "sequential"
    /\ q_pc = "start"
    /\ q_row' = [q_row EXCEPT !.status = "PROCESSING"]
    /\ q_pc' = "wait"
    /\ UNCHANGED <<q_impl, q_req, q_envs, q_attempt, q_result, q_trace,
                   rlVars, spVars, mVars, oVars, xVars, szVars, upVars>>

\* await self.landing_ai_limiter.wait_if_needed()
SeqWait ==
    /\ q_pc = "wait"
    /\ q_trace' = Append(q_trace, Event("acquire", "landing_ai", q_attempt))
    /\ q_pc' = "call"
    /\ UNCHANGED <<q_impl, q_req, q_envs, q_attempt, q_row, q_result,
                   rlVars, spVars, mVars, oVars, xVars, szVars, upVars>>

\* extract_document returns; the rest of the iteration, and of the function
\* when the loop ends here
SeqExtract ==
    /\ q_pc = "call"
    /\ LET env == q_envs[q_attempt + 1]
           result == ExtractDocument(q_req.selected, q_req.custom, env, 1)
           raises == DetermineRaises(result)
           outcome == IF raises THEN "raise"
                      ELSE IF DictTruthy(result.data) THEN "data" ELSE "no data"
           last == q_attempt = max_retries - 1
       IN  /\ q_result' = result
           /\ q_trace' = q_trace \o CallEvents(env)
                            \o <<Event("attempt", outcome, q_attempt)>>
           /\ IF raises
              THEN IF last
                   THEN /\ q_row' = [q_row EXCEPT
                               !.status = "FAILED",
                               !.error_message = "'NoneType' object has no attribute 'get'",
                               !.retry_count = q_attempt + 1]
                        /\ q_pc' = "raised"
                        /\ UNCHANGED q_attempt
                   ELSE /\ q_pc' = "backoff"
                        /\ UNCHANGED <<q_row, q_attempt>>
              ELSE IF BreaksLoop(result) \/ last
                   THEN /\ q_row' = AfterLoop(q_row, result, q_attempt)
                        /\ q_pc' = "returned"
                        /\ UNCHANGED q_attempt
                   ELSE /\ q_attempt' = q_attempt + 1
                        /\ q_pc' = "wait"
                        /\ UNCHANGED q_row
    /\ UNCHANGED <<q_impl, q_req, q_envs,
                   rlVars, spVars, mVars, oVars, xVars, szVars, upVars>>

\* await asyncio.sleep(self.retry_delay_base ** attempt)
SeqBackoff ==
    /\ q_pc = "backoff"
    /\ q_trace' = Append(q_trace, Event("sleep", "asyncio", retry_delay_base ^ q_attempt))
    /\ q_attempt' = q_attempt + 1
    /\ q_pc' = "wait"
    /\ UNCHANGED <<q_impl, q_req, q_envs, q_row, q_result,
                   rlVars, spVars, mVars, oVars, xVars, szVars, upVars>>

\* _process_single_chunk_simplified of the optimized processor: one call
OptWorker ==
    /\ q_impl = "optimized"
    /\ q_pc = "start"
    /\ LET env == q_envs[1]
           result == ExtractDocument(q_req.selected, q_req.custom, env, 1)
       IN  /\ q_result' = result
           /\ q_trace' = q_trace \o CallEvents(env)
           /\ q_row' = ChunkAfterExtraction([q_row EXCEPT !.status = "PROCESSING"], result)
    /\ q_pc' = "returned"
    /\ UNCHANGED <<q_impl, q_req, q_envs, q_attempt,
                   rlVars, spVars, mVars, oVars, xVars, szVars, upVars>>

SeqNext == SeqStart \/ SeqWait \/ SeqExtract \/ SeqBackoff \/ OptWorker

(***************************************************************************)
(* Specifications                                                          *)
(***************************************************************************)
\* Each specification runs one component; the others stay in their
\* constructed state.
SplitIdle ==
    /\ sp_total = 1 /\ sp_size = 0 /\ sp_start = 0
    /\ sp_chunks = <<>> /\ sp_pc = "loop"

MergeIdle ==
    /\ m_rows = <<>> /\ m_fields = <<>> /\ m_impl = "none" /\ m_out = NotMerged

SizeIdle ==
    /\ cs_default = max_pages_per_chunk /\ cs_size = 0 /\ cs_pages = 0
    /\ cs_perf = -1 /\ cs_out = 0

UploadIdle ==
    /\ u_file = [size |-> 30, pages |-> 50, readable |-> TRUE]
    /\ u_doc = NoDocument /\ u_chunks = <<>> /\ u_metrics = 0 /\ u_splits = 0
    /\ u_chunk_task = "none" /\ u_tasks = <<>> /\ u_last = "none" /\ u_resp = <<>>

SeqIdle ==
    /\ q_impl = "sequential" /\ q_req = NoFields
    /\ q_envs = [i \in 1..max_retries |-> Env("extraction", "doc", TRUE, "values")]
    /\ q_pc = "idle" /\ q_attempt = 0 /\ q_row = SeqChunkRow
    /\ q_result = NoResult /\ q_trace = <<>>

ExtractIdle ==
    /\ x_impl = "simple" /\ x_req = NoFields /\ x_env = Env("error", "none", FALSE, "unconfigured")
    /\ x_pc = "idle" /\ x_tried = <<>> /\ x_result = NoResult

RLSpecInit == RLInit /\ SplitIdle /\ MergeIdle /\ OrchInit /\ ExtractIdle /\ SizeIdle /\ UploadIdle /\ SeqIdle

SplitSpecInit == SplitInit /\ RLInit /\ MergeIdle /\ OrchInit /\ ExtractIdle /\ SizeIdle /\ UploadIdle /\ SeqIdle

MergeSpecInit == MergeInit /\ RLInit /\ SplitIdle /\ OrchInit /\ ExtractIdle /\ SizeIdle /\ UploadIdle /\ SeqIdle

Init == OrchInit /\ RLInit /\ SplitIdle /\ MergeIdle /\ ExtractIdle /\ SizeIdle /\ UploadIdle /\ SeqIdle

ExtractSpecInit == ExtractInit /\ RLInit /\ SplitIdle /\ MergeIdle /\ OrchInit /\ SizeIdle /\ UploadIdle /\ SeqIdle

Next == OrchNext

SpecRL == RLSpecInit /\ [][RLNext]_vars

SpecSplit == SplitSpecInit /\ [][SplitNext]_vars

SpecMerge == MergeSpecInit /\ [][MergeNext]_vars

SizeSpecInit == SizeInit /\ RLInit /\ SplitIdle /\ MergeIdle /\ OrchInit /\ ExtractIdle /\ UploadIdle /\ SeqIdle

SpecSize == SizeSpecInit /\ [][SizeNext]_vars

UploadSpecInit == UploadInit /\ RLInit /\ SplitIdle /\ MergeIdle /\ OrchInit /\ ExtractIdle /\ SizeIdle /\ SeqIdle

SpecUpload == UploadSpecInit /\ [][UploadNext]_vars

SeqSpecInit == SeqInit /\ RLInit /\ SplitIdle /\ MergeIdle /\ OrchInit /\ ExtractIdle /\ SizeIdle /\ UploadIdle

SpecSeq == SeqSpecInit /\ [][SeqNext]_vars

SpecExtract == ExtractSpecInit /\ [][ExtractNext]_vars

Spec == Init /\ [][Next]_vars

(***************************************************************************)
(* C1                                                                      *)
(***************************************************************************)
AdmittedInWindow(t) ==
    Cardinality({i \in 1..Len(admitted) : t - admitted[i] < WindowTicks})

\* C1: at no instant do more than max_rpm admissions (timestamps appended to
\* request_times) fall inside the trailing 60-second window, whatever the
\* pattern of wait_if_needed calls, concurrent callers included.
C1_WindowLimit == AdmittedInWindow(now) <= max_rpm

(***************************************************************************)
(* C2                                                                      *)
(***************************************************************************)
\* the chunks that are PROCESSING with a call of extract_document outstanding
InFlight ==
    {c \in Chunks : /\ chunk_rows[c].status = "PROCESSING"
                    /\ \E r \in Runs : task[r][c] = "called"}

\* C2: while process_document_chunks runs, at most max_parallel_chunks chunks
\* of the document are in flight.
C2_InFlightBounded == Cardinality(InFlight) <= max_parallel_chunks

(***************************************************************************)
(* C3                                                                      *)
(***************************************************************************)
\* the index of the batch a chunk belongs to
BatchOf(c) == (c - 1) \div max_parallel_chunks

\* C3: batches are taken in chunk_number order with a full barrier: a run
\* starts a chunk only when the coroutine of every chunk of every earlier
\* batch has returned, and a coroutine that returns leaves its chunk COMPLETED
\* or FAILED, whichever it is.
C3_BatchBarrier ==
    [][\A r \in Runs, c \in Chunks :
          /\ (task[r][c] = "none" /\ task'[r][c] = "called") =>
                \A b \in Chunks :
                    BatchOf(b) < BatchOf(c) => (b < c /\ task[r][b] = "done")
          /\ (task[r][c] = "called" /\ task'[r][c] = "done") =>
                chunk_rows'[c].status \in {"COMPLETED", "FAILED"}]_vars

\* a chunk of a later batch in flight after a batch that had a failure and a
\* success
C3_Witness ==
    \E r \in Runs, c \in Chunks :
        /\ pc[r] = "gather"
        /\ task[r][c] = "called"
        /\ \E b \in Chunks : BatchOf(b) < BatchOf(c) /\ chunk_rows[b].status = "FAILED"
        /\ \E b \in Chunks : BatchOf(b) < BatchOf(c) /\ chunk_rows[b].status = "COMPLETED"

(***************************************************************************)
(* C4                                                                      *)
(***************************************************************************)
AllowedStatusChanges ==
    {<<"PENDING", "PROCESSING">>, <<"PROCESSING", "COMPLETED">>,
     <<"PROCESSING", "FAILED">>, <<"FAILED", "PENDING">>}

\* C4: every change of a chunk's status is PENDING->PROCESSING,
\* PROCESSING->COMPLETED, PROCESSING->FAILED or FAILED->PENDING, the last one
\* by the retry request only; a COMPLETED or FAILED chunk is never put back
\* into PROCESSING.
C4_StatusMachine ==
    [][\A c \in Chunks :
          chunk_rows'[c].status # chunk_rows[c].status =>
              /\ <<chunk_rows[c].status, chunk_rows'[c].status>> \in AllowedStatusChanges
              /\ chunk_rows[c].status = "FAILED" => RetryChunk(c)]_vars

(***************************************************************************)
(* C5                                                                      *)
(***************************************************************************)
\* every field of the result is null
OnlyNulls(result) ==
    \A f \in DOMAIN result.data.d \ {"chunks"} : result.data.d[f] = PyNone

\* extract_document failed on every tier: only nulls, reported with method
\* FAILED or, after an exception inside it, with no metadata
FailedOnEveryTier(result) ==
    OnlyNulls(result) /\ result.metadata \in {"FAILED", "NONE"}

\* C5: a chunk whose extraction failed on every tier ends FAILED with an
\* error_message, and the step leaves every other chunk as it was.
C5_FailedExtractionMarksFailed ==
    [][\A r \in Runs, c \in Chunks, env \in Envs :
          (/\ TaskFinishWith(r, c, env)
           /\ FailedOnEveryTier(
                  ExtractDocument(fields[r].selected, fields[r].custom, env, c)))
          => /\ chunk_rows'[c].status = "FAILED"
             /\ chunk_rows'[c].error_message # "NULL"
             /\ \A b \in Chunks \ {c} : chunk_rows'[b] = chunk_rows[b]]_vars

(***************************************************************************)
(* C6                                                                      *)
(***************************************************************************)
\* extracted_data holds a non-null value for a field
HasValue(data) ==
    /\ ~data.null
    /\ \E f \in DOMAIN data.d \ {"chunks"} : data.d[f] # PyNone

\* C6: a COMPLETED chunk holds at least one non-null value for a requested
\* field and has extraction_method and processing_time_ms recorded.
C6_CompletedHasValue ==
    \A c \in Chunks :
        chunk_rows[c].status = "COMPLETED" =>
            /\ HasValue(chunk_rows[c].extracted_data)
            /\ chunk_rows[c].extraction_method # "NULL"
            /\ chunk_rows[c].processing_time_ms # "NULL"

(***************************************************************************)
(* C7                                                                      *)
(***************************************************************************)
\* C7: the chunks returned by _split_pdf_into_chunks are numbered 1..N without
\* gaps, start at page 1, each start where the previous one ended plus one,
\* end at the page count, and hold page_count = end_page - start_page + 1
\* pages, at most the effective chunk size; 120 pages at size 40 give
\* 1-40, 41-80, 81-120.
C7_Partition ==
    sp_pc = "done" =>
        LET N == Len(sp_chunks) IN
        /\ N >= 1
        /\ \A i \in 1..N :
              /\ sp_chunks[i].chunk_number = i
              /\ sp_chunks[i].page_count
                    = sp_chunks[i].end_page - sp_chunks[i].start_page + 1
              /\ sp_chunks[i].page_count >= 1
              /\ sp_chunks[i].page_count <= EffectiveChunkSize(sp_size)
        /\ sp_chunks[1].start_page = 1
        /\ \A i \in 1..(N - 1) :
              sp_chunks[i + 1].start_page = sp_chunks[i].end_page + 1
        /\ sp_chunks[N].end_page = sp_total
        /\ (sp_total = 120 /\ EffectiveChunkSize(sp_size) = 40) =>
              /\ N = 3
              /\ <<sp_chunks[1].start_page, sp_chunks[1].end_page>> = <<1, 40>>
              /\ <<sp_chunks[2].start_page, sp_chunks[2].end_page>> = <<41, 80>>
              /\ <<sp_chunks[3].start_page, sp_chunks[3].end_page>> = <<81, 120>>

\* a split into at least three chunks whose last chunk is shorter than the rest
C7_Witness ==
    /\ sp_pc = "done"
    /\ Len(sp_chunks) >= 3
    /\ sp_chunks[Len(sp_chunks)].page_count < EffectiveChunkSize(sp_size)

(***************************************************************************)
(* C8                                                                      *)
(***************************************************************************)
\* the row of the table with chunk_number k
RowOf(table, k) == CHOOSE r \in {table[j] : j \in 1..Len(table)} : r.chunk_number = k

\* what one chunk reports for a field: a list reports its elements, a scalar
\* itself, and a chunk that is not COMPLETED or has no value for the field
\* (no entry, null or the empty string) reports nothing
Reported(row, field) ==
    IF row.status # "COMPLETED" \/ row.extracted_data.null THEN <<>>
    ELSE IF field \notin DOMAIN row.extracted_data.d THEN <<>>
    ELSE LET v == row.extracted_data.d[field] IN
         IF v.t = "list" THEN v.xs
         ELSE IF v.t = "none" \/ (v.t = "str" /\ v.n = 0) THEN <<>>
         ELSE <<v>>

RECURSIVE ReportedUpTo(_, _, _)
ReportedUpTo(table, field, k) ==
    IF k = 0 THEN <<>>
    ELSE ReportedUpTo(table, field, k - 1) \o Reported(RowOf(table, k), field)

\* the elements of a sequence that did not occur earlier in it, in place
FirstOccurrences(seq) ==
    LET keep == {i \in 1..Len(seq) : \A j \in 1..(i - 1) : ~PyEq(seq[j], seq[i])}
    IN [i \in 1..Cardinality(keep) |->
          seq[CHOOSE x \in keep : Cardinality({y \in keep : y < x}) = i - 1]]

ReferenceMerge(table, field_names) ==
    [f \in FieldSet(field_names) |->
        FirstOccurrences(ReportedUpTo(table, f, Len(table)))]

\* C8: for every list of chunks and every requested field, the value merged by
\* OptimizedChunkProcessor._merge_chunk_results is the concatenation, in
\* chunk_number order, of the values the chunks report (a scalar itself, a list
\* its elements, nothing for a chunk without a value), with later repetitions
\* dropped and first occurrences left in place.
C8_MergeIsReference ==
    m_impl = "optimized" => m_out.d = ReferenceMerge(m_rows, m_fields)

(***************************************************************************)
(* C9                                                                      *)
(***************************************************************************)
\* the same rows held by the table in another order
Reordered(table, p) == [i \in 1..Len(table) |-> table[p[i]]]

\* the merged dictionary stored as the extracted_data of a single chunk
AsSingleChunk(d) ==
    <<[chunk_number |-> 1, status |-> "COMPLETED",
       extracted_data |-> Dict([f \in DOMAIN d |-> PyList(d[f])])]>>

\* C9: the merged result depends on the chunks' results by chunk_number only:
\* whatever order the rows were completed and are held in, loading and merging
\* them gives the same dictionary, and merging the merged dictionary again
\* leaves it unchanged.
C9_MergeOrderIndependent ==
    m_impl = "optimized" =>
        /\ \A p \in Perms(Len(m_rows)) :
              MergeOptimized(LoadChunks(Reordered(m_rows, p)), m_fields) = m_out.d
        /\ MergeOptimized(AsSingleChunk(m_out.d), m_fields) = m_out.d

\* two completed chunks held out of chunk_number order, both contributing
C9_Witness ==
    /\ m_impl = "optimized"
    /\ Len(m_rows) >= 2
    /\ m_rows[1].chunk_number > m_rows[2].chunk_number
    /\ \A i \in 1..2 : m_rows[i].status = "COMPLETED"
    /\ "f" \in DOMAIN m_out.d
    /\ Len(m_out.d["f"]) >= 3

(***************************************************************************)
(* C10                                                                     *)
(***************************************************************************)
\* the values the COMPLETED rows of a table hold for a field
CompletedValues(table, field) ==
    UNION {LET row == table[i] IN
           IF row.status # "COMPLETED" \/ row.extracted_data.null
              \/ field \notin DOMAIN row.extracted_data.d
           THEN {}
           ELSE LET v == row.extracted_data.d[field] IN
                IF IsList(v) THEN {v.xs[j] : j \in 1..Len(v.xs)} ELSE {v}
           : i \in 1..Len(table)}

\* C10: whichever merge produced it, the merged result holds values of rows
\* that are COMPLETED at merge time only; a FAILED, PENDING or PROCESSING row
\* contributes nothing, whatever extracted_data it still holds.
C10_OnlyCompletedContribute ==
    m_impl # "none" =>
        \A f \in DOMAIN m_out.d :
            \A i \in 1..Len(m_out.d[f]) :
                m_out.d[f][i] \in CompletedValues(m_rows, f)

(***************************************************************************)
(* C11                                                                     *)
(***************************************************************************)
\* the runs whose coroutine for chunk c is between setting the chunk
\* PROCESSING and storing its outcome
Drivers(c) == {r \in Runs : task[r][c] = "called"}

\* C11: whatever the interleaving of client requests, no chunk is driven
\* through its PENDING->terminal transition by two workers at the same time.
C11_SingleDriver == \A c \in Chunks : Cardinality(Drivers(c)) <= 1

(***************************************************************************)
(* C12                                                                     *)
(***************************************************************************)
\* C12: a run whose batches have all drained ends with the document
\* EXTRACTED, whatever number of its chunks ended FAILED; a run ends otherwise
\* only by an exception leaving it, and no FAILED chunk causes one: the only
\* exception of a drained batch is raised over two or more COMPLETED rows.
C12_DrainedRunExtracts ==
    [][\A r \in Runs :
          (pc[r] = "gather" /\ pc'[r] # "gather") =>
              \/ pc'[r] = "returned" /\ document'.status = "EXTRACTED"
              \/ pc'[r] = "raised" /\ Cardinality(CompletedRows) > 1]_vars

\* a run has returned and left the document EXTRACTED with every chunk FAILED
C12_Witness ==
    /\ \E r \in Runs : pc[r] = "returned"
    /\ document.status = "EXTRACTED"
    /\ \A c \in Chunks : chunk_rows[c].status = "FAILED"

(***************************************************************************)
(* C13                                                                     *)
(***************************************************************************)
\* chunk processing of the document has finished: a run has returned, the
\* document is EXTRACTED and no run is scheduled or under way
ProcessingFinished ==
    /\ document.status = "EXTRACTED"
    /\ \E r \in Runs : pc[r] = "returned"
    /\ \A r \in Runs : pc[r] \notin {"scheduled", "gather"}

\* C13: when chunk processing has finished and at least one chunk is FAILED,
\* the ProcessingMetrics row has has_failures = true.
C13_HasFailuresSet ==
    (ProcessingFinished /\ \E c \in Chunks : chunk_rows[c].status = "FAILED")
        => metrics.has_failures

(***************************************************************************)
(* C14                                                                     *)
(***************************************************************************)
\* an exception leaves process_document_chunks of run r in this step
ExceptionEscapes(r) == pc[r] = "gather" /\ pc'[r] = "raised"

\* C14: the document becomes FAILED only in a step in which an exception
\* leaves process_document_chunks, every such step leaves it FAILED with
\* error_message set, and a step that stores the outcome of a chunk, failed or
\* not, leaves the document as it was.
C14_DocumentFailedIffException ==
    [][/\ (document'.status = "FAILED" /\ document.status # "FAILED")
           => \E r \in Runs : ExceptionEscapes(r)
       /\ (\E r \in Runs : ExceptionEscapes(r))
           => /\ document'.status = "FAILED"
              /\ document'.error_message # "NULL"
       /\ chunk_rows' # chunk_rows => document' = document]_vars

\* an exception has left a run while another chunk was FAILED: the document
\* is FAILED with the message of the exception
C14_Witness ==
    /\ \E r \in Runs : pc[r] = "raised"
    /\ document.status = "FAILED"
    /\ document.error_message = "MultipleResultsFound"
    /\ \E c \in Chunks : chunk_rows[c].status = "FAILED"

(***************************************************************************)
(* C15                                                                     *)
(***************************************************************************)
RECURSIVE SumPageCount(_, _)
\* the sum of page_count over the chunks of set S in rows
SumPageCount(rows, S) ==
    IF S = {} THEN 0
    ELSE LET c == CHOOSE x \in S : TRUE
         IN  rows[c].page_count + SumPageCount(rows, S \ {c})

WithStatus(rows, st) == {c \in Chunks : rows[c].status = st}

\* the metrics row m agrees with the chunk rows
MetricsAgree(m, rows) ==
    /\ m.completed_chunks = Cardinality(WithStatus(rows, "COMPLETED"))
    /\ m.failed_chunks = Cardinality(WithStatus(rows, "FAILED"))
    /\ m.processed_pages = SumPageCount(rows, WithStatus(rows, "COMPLETED"))
    /\ m.is_complete = (m.completed_chunks = m.total_chunks)

\* run r has just run the metrics update that follows a drained batch
MetricsUpdated(r) ==
    /\ pc[r] = "gather"
    /\ BatchDrained(r)
    /\ batch_i'[r] # batch_i[r] \/ pc'[r] # "gather"

\* C15: after the metrics update of each batch, and so at the end of
\* processing, the metrics row holds the number of COMPLETED chunks, the
\* number of FAILED chunks, the pages of the COMPLETED chunks and
\* is_complete = (completed_chunks = total_chunks).
C15_MetricsAgreeAfterBatch ==
    [][\A r \in Runs : MetricsUpdated(r) => MetricsAgree(metrics', chunk_rows')]_vars

(***************************************************************************)
(* C16                                                                     *)
(***************************************************************************)
\* the chunks of the current batch of run r whose coroutine has not returned
InFlightSiblings(r) == {c \in Batch(batch_i[r]) : task[r][c] # "done"}

\* C16: the metrics row is written only by a run whose current batch has
\* fully drained: no step writes it while the writing run still has a chunk
\* of its batch in flight.
C16_MetricsWrittenAfterDrain ==
    [][metrics' # metrics =>
          \E r \in Runs : /\ pc[r] = "gather"
                          /\ InFlightSiblings(r) = {}
                          /\ MetricsUpdated(r)]_vars

LibraryFailed == x_env.parse # "extraction"

\* the remote-API tier returned a result
RemoteApiSucceeds == x_env.api = "values" /\ x_env.reparse # "error"

\* C18: within one extraction call the tiers are entered in the order
\* library, remote API, language model: the remote API only after the library
\* failed, the language model only after the library and the remote API were
\* both entered and failed.
C18_TierOrder ==
    \A i \in 1..Len(x_tried) :
        /\ x_tried[i] = "LIBRARY" => i = 1
        /\ x_tried[i] = "REMOTE_API" =>
               i = 2 /\ x_tried[1] = "LIBRARY" /\ LibraryFailed
        /\ x_tried[i] = "OPENAI" =>
               /\ i = 3 /\ x_tried[1] = "LIBRARY" /\ x_tried[2] = "REMOTE_API"
               /\ LibraryFailed /\ ~RemoteApiSucceeds

(***************************************************************************)
(* C19                                                                     *)
(***************************************************************************)
\* the tier an extraction_method value names
TierOf(method) ==
    CASE method = "LANDING_AI_SDK" -> "LIBRARY"
      [] method = "LANDING_AI_API" -> "REMOTE_API"
      [] method = "OPENAI_FALLBACK" -> "OPENAI"
      [] OTHER -> "NO_TIER"

\* C19: the extraction_method a call reports is the tier whose output it
\* returns: when the library raises and the remote API succeeds the method is
\* LANDING_AI_API, a method naming a tier names the last tier entered, and a
\* chunk that ends COMPLETED on the result has a method.
C19_ReportedTierProducedData ==
    x_pc = "returned" =>
        /\ (x_env.parse = "error" /\ RemoteApiSucceeds)
               => x_result.metadata = "LANDING_AI_API"
        /\ TierOf(x_result.metadata) # "NO_TIER"
               => TierOf(x_result.metadata) = x_tried[Len(x_tried)]
        /\ ChunkAfterExtraction(NewChunkRow(1), x_result).status = "COMPLETED"
               => x_result.metadata \notin {"NONE", "UNKNOWN"}

(***************************************************************************)
(* C20                                                                     *)
(***************************************************************************)
\* no tier produced a value for any requested field
NoFieldValue(result) ==
    \A f \in DOMAIN result.data.d \ {"chunks"} :
        result.data.d[f] \in {PyNone, PyList(<<>>)}

\* C20: whatever the tiers do, a call for a non-empty field list returns, and
\* when no tier produced a value the result holds every requested field,
\* null or empty, and reports the tier FAILED.
C20_AllTiersFailedReportsFailed ==
    /\ x_pc \in {"start", "reparse", "except", "api", "openai", "returned"}
    /\ (x_pc = "returned" /\ Requested # <<>> /\ NoFieldValue(x_result)) =>
           /\ ~x_result.data.null
           /\ FieldSet(Requested) \subseteq DOMAIN x_result.data.d
           /\ x_result.metadata = "FAILED"

(***************************************************************************)
(* C23                                                                     *)
(***************************************************************************)
\* every chunk of the document is COMPLETED or FAILED
AllTerminal(rows) == \A c \in Chunks : rows[c].status \in {"COMPLETED", "FAILED"}

\* C23: a step writes the merged result to document.extracted_data, or sets
\* the document EXTRACTED, only in a state where every chunk is COMPLETED or
\* FAILED.
C23_MergedOnlyWhenAllTerminal ==
    [][(\/ document'.extracted_data # document.extracted_data
        \/ document'.status = "EXTRACTED" /\ document.status # "EXTRACTED")
       => AllTerminal(chunk_rows)]_vars

(***************************************************************************)
(* C26                                                                     *)
(***************************************************************************)
\* a chunk id no row of the document has
UnknownChunk == 0

\* C26: in every state the retry request on a FAILED chunk is answered 200
\* and leaves that chunk PENDING with error_message cleared and every other
\* field and chunk as it was; on a PENDING, PROCESSING or COMPLETED chunk it
\* is answered 400, on an unknown chunk 404, and changes nothing; the chunk
\* rows change by a retry only as the accepted request says.
C26_RetryResetsFailedOnly ==
    [][/\ \A c \in Chunks \cup {UnknownChunk} :
             LET out == RetryChunkProcessing(chunk_rows, c)
             IN  /\ c = UnknownChunk => out.code = 404 /\ out.rows = chunk_rows
                 /\ (c \in Chunks /\ chunk_rows[c].status = "FAILED") =>
                        /\ out.code = 200
                        /\ out.rows[c] = [chunk_rows[c] EXCEPT
                                              !.status = "PENDING",
                                              !.error_message = "NULL"]
                        /\ \A d \in Chunks \ {c} : out.rows[d] = chunk_rows[d]
                 /\ (c \in Chunks /\ chunk_rows[c].status \in
                                        {"PENDING", "PROCESSING", "COMPLETED"}) =>
                        out.code = 400 /\ out.rows = chunk_rows
       /\ \A c \in Chunks :
             RetryChunk(c) => /\ chunk_rows[c].status = "FAILED"
                              /\ chunk_rows'[c].status = "PENDING"
                              /\ chunk_rows'[c].error_message = "NULL"]_vars

\* a chunk that failed in the current run has been reset by a retry request
\* while chunks COMPLETED and PROCESSING, on which the request is refused,
\* exist
C26_Witness ==
    /\ \E r \in Runs, c \in Chunks :
          /\ task[r][c] = "done"
          /\ chunk_rows[c].status = "PENDING"
          /\ chunk_rows[c].error_message = "NULL"
    /\ \E c \in Chunks : chunk_rows[c].status = "COMPLETED"
    /\ \E c \in Chunks : chunk_rows[c].status = "PROCESSING"

(***************************************************************************)
(* C29                                                                     *)
(***************************************************************************)
\* C29: for every table of chunks and every field list, the three merge
\* implementations return the same merged map.
C29_MergesEquivalent ==
    m_impl # "none" =>
        /\ m_out.d = MergeOptimized(LoadChunks(m_rows), m_fields)
        /\ m_out.d = MergeSequential(LoadChunks(m_rows), m_fields)
        /\ m_out.d = MergeChunker(LoadChunks(m_rows), m_fields)

(***************************************************************************)
(* C24                                                                     *)
(***************************************************************************)
\* C24: whatever the file size, the page count, the reported response time
\* and the configured default, the size returned is between 10 and 45 pages.
C24_SizeWithinLimits == cs_out # 0 => (10 <= cs_out /\ cs_out <= 45)

\* a default above 45 has been cut to 45, the document being light and the
\* backend fast
C24_Witness ==
    /\ cs_out = 45
    /\ cs_default > 45
    /\ cs_pages # 0 /\ cs_size # 0
    /\ cs_perf = 0

(***************************************************************************)
(* C27                                                                     *)
(***************************************************************************)
\* C27: the size returned is at most 15 pages when the average page size is
\* above 1.0 MB or the response time above 30000 ms, and at most 25 when the
\* average page size is above 0.5 MB or the response time above 15000 ms.
C27_TwoStepShrink ==
    cs_out # 0 =>
        /\ (\/ cs_pages # 0 /\ AvgPageSizeAbove(cs_size, cs_pages, 10)
            \/ cs_perf > 30000) => cs_out <= 15
        /\ (\/ cs_pages # 0 /\ AvgPageSizeAbove(cs_size, cs_pages, 5)
            \/ cs_perf > 15000) => cs_out <= 25

C25_UnreadableFileRaises ==
    ~u_file.readable =>
        /\ u_last # "returned"
        /\ \A k \in 1..Len(u_resp) : u_resp[k] # "not required"
        /\ u_doc.page_count # 0

(***************************************************************************)
(* C30                                                                     *)
(***************************************************************************)
\* C30: a task started by a process request enters chunk processing only
\* when the chunking task is over and the chunk rows exist, no document is
\* marked failed for want of chunks, and the chunking task ends on a document
\* that is neither EXTRACTING nor CHUNK_PROCESSING.
C30_NoProcessingBeforeChunks ==
    [][/\ \A i \in 1..Len(u_tasks) :
            (/\ u_tasks[i].kind # "sequential"
             /\ u_tasks[i].pc = "scheduled"
             /\ u_tasks'[i].pc # "scheduled"
             /\ u_doc.is_chunked)
            => (u_chunks # <<>> /\ u_chunk_task # "scheduled")
       /\ u_doc'.error_message # "No chunks found"
       /\ (u_chunk_task = "scheduled" /\ u_chunk_task' = "done")
            => u_doc.status \notin {"EXTRACTING", "CHUNK_PROCESSING"}]_vars

(***************************************************************************)
(* C21                                                                     *)
(***************************************************************************)
\* C21: every outbound call made while a chunk is processed comes after a
\* wait on the rate limiter of the backend called, in the sequential and in
\* the optimized processor.
C21_CallsPassLimiter ==
    \A k \in 1..Len(q_trace) :
        q_trace[k].ev = "call" =>
            \E j \in 1..(k - 1) :
                q_trace[j].ev = "acquire" /\ q_trace[j].b = q_trace[k].b

(***************************************************************************)
(* C28                                                                     *)
(***************************************************************************)
AttemptsMade == {k \in 1..Len(q_trace) : q_trace[k].ev = "attempt"}

SeqFinished == q_impl = "sequential" /\ q_pc \in {"returned", "raised"}

\* C28: in _process_single_chunk there are at most max_retries attempts,
\* each after a limiter wait of its own; an attempt that raised is followed
\* by a sleep of retry_delay_base^attempt seconds before the next one; an
\* attempt that returned data is the last, and the chunk ends COMPLETED with
\* retry_count the number of attempts; when all attempts raised the chunk
\* ends FAILED with an error message and retry_count = max_retries; when the
\* last attempt returned no data the chunk ends FAILED with an error message.
C28_RetryLoop ==
    q_impl = "sequential" =>
        /\ Cardinality(AttemptsMade) <= max_retries
        /\ \A k \in AttemptsMade :
              /\ \E j \in 1..(k - 1) :
                    /\ q_trace[j] = Event("acquire", "landing_ai", q_trace[k].n)
                    /\ \A i \in j..(k - 1) : i \notin AttemptsMade
              /\ (q_trace[k].b = "raise" /\ k < Len(q_trace)) =>
                    q_trace[k + 1] = Event("sleep", "asyncio", retry_delay_base ^ q_trace[k].n)
              /\ q_trace[k].b = "data" =>
                    /\ k = Len(q_trace)
                    /\ q_pc = "returned"
                    /\ q_row.status = "COMPLETED"
                    /\ q_row.retry_count = Cardinality(AttemptsMade)
        /\ (SeqFinished /\ \A k \in AttemptsMade : q_trace[k].b = "raise") =>
              /\ q_pc = "raised"
              /\ q_row.status = "FAILED"
              /\ q_row.error_message # "NULL"
              /\ q_row.retry_count = max_retries
        /\ (SeqFinished /\ q_trace[Len(q_trace)].b = "no data") =>
              /\ q_row.status = "FAILED"
              /\ q_row.error_message # "NULL"

\* a first attempt raised, a second returned data after the backoff
C28_Witness ==
    /\ SeqFinished
    /\ Cardinality(AttemptsMade) = 2
    /\ q_row.status = "COMPLETED"
    /\ q_row.retry_count = 2
    /\ \E k \in 1..Len(q_trace) : q_trace[k] = Event("sleep", "asyncio", 1)

====
